---------------------------- MODULE Spec2Model ----------------------------
(***************************************************************************)
(* TidyDocMD (tidydocmd.py): parse a markdown-like file into a forest of   *)
(* Section objects, sort the h4 entries of chosen h3 sections by last      *)
(* name, and write the forest back out.                                    *)
(*                                                                         *)
(* A character is a one-character string, a Python str is a sequence of    *)
(* characters, and the input file is the list `lines` that readlines()     *)
(* returns.  Section objects live in the heap `nodes`; a Section is named  *)
(* by its index in the heap, which is its creation order.                  *)
(***************************************************************************)
EXTENDS Integers, Sequences, FiniteSets, TLC

VARIABLES
    lines,          \* parse_file: lines = file.readlines()
    pc,             \* position of the script: "parse", "sort" (sort loop and write), "done"
    i,              \* parse_file: number of lines the for loop has consumed
    nodes,          \* heap of Section objects: name, depth, text, subsections
    root_sections,  \* parse_file: root_sections (ids), __main__: sections
    section_stack,  \* parse_file: section_stack (ids), innermost last
    passes,         \* __main__: iterations done of the outer `for section in sections`
    reports,        \* log.info / print output of the latest pass
    out             \* contents written to the output file

vars == <<lines, pc, i, nodes, root_sections, section_stack, passes, reports, out>>

-----------------------------------------------------------------------------
(* Characters and Python str primitives *)

UpperCase == <<"A","B","C","D","E","F","G","H","I","J","K","L","M",
               "N","O","P","Q","R","S","T","U","V","W","X","Y","Z">>
LowerCase == <<"a","b","c","d","e","f","g","h","i","j","k","l","m",
               "n","o","p","q","r","s","t","u","v","w","x","y","z">>

\* Code point of a character (str comparison is by code point).
Ord(c) ==
    IF \E n \in 1..26 : UpperCase[n] = c
    THEN 64 + (CHOOSE n \in 1..26 : UpperCase[n] = c)
    ELSE IF \E n \in 1..26 : LowerCase[n] = c
    THEN 96 + (CHOOSE n \in 1..26 : LowerCase[n] = c)
    ELSE CASE c = "\t" -> 9
           [] c = "\n" -> 10
           [] c = "\r" -> 13
           [] c = " "  -> 32
           [] c = "#"  -> 35
           [] c = "."  -> 46

\* str.lower() on one character.
LowerChar(c) ==
    IF \E n \in 1..26 : UpperCase[n] = c
    THEN LowerCase[CHOOSE n \in 1..26 : UpperCase[n] = c]
    ELSE c

\* str.lower()
Lower(s) == [n \in 1..Len(s) |-> LowerChar(s[n])]

\* Characters str.strip() and str.split() treat as whitespace.
Whitespace == {" ", "\t", "\n", "\r"}

\* s[n:] for a 0-based Python index n >= 0 (empty when n >= len(s)).
SliceFrom(s, n) == IF n >= Len(s) THEN <<>> ELSE SubSeq(s, n + 1, Len(s))

\* Number of leading characters of s that are in the set cs.
RECURSIVE LeadingCount(_, _)
LeadingCount(s, cs) ==
    IF s # <<>> /\ Head(s) \in cs THEN 1 + LeadingCount(Tail(s), cs) ELSE 0

\* Number of trailing characters of s that are in the set cs.
RECURSIVE TrailingCount(_, _)
TrailingCount(s, cs) ==
    IF s # <<>> /\ s[Len(s)] \in cs
    THEN 1 + TrailingCount(SubSeq(s, 1, Len(s) - 1), cs)
    ELSE 0

\* str.lstrip(cs)
LStrip(s, cs) == SliceFrom(s, LeadingCount(s, cs))

\* str.rstrip(cs)
RStrip(s, cs) == SubSeq(s, 1, Len(s) - TrailingCount(s, cs))

\* str.strip(cs)
Strip(s, cs) == RStrip(LStrip(s, cs), cs)

\* "".join(list of str)
RECURSIVE Join(_)
Join(ss) == IF ss = <<>> THEN <<>> ELSE Head(ss) \o Join(Tail(ss))

\* c * n
Repeat(c, n) == [k \in 1..n |-> c]

\* a < b for Python str (lexicographic by code point).
RECURSIVE StrLess(_, _)
StrLess(a, b) ==
    IF b = <<>> THEN FALSE
    ELSE IF a = <<>> THEN TRUE
    ELSE IF Head(a) = Head(b) THEN StrLess(Tail(a), Tail(b))
    ELSE Ord(Head(a)) < Ord(Head(b))

-----------------------------------------------------------------------------
(* Section *)

\* Section.__init__
NewSection(name, depth) ==
    [name |-> name, depth |-> depth, text |-> <<>>, subsections |-> <<>>]

\* [sub.name for sub in subsections]
NamesOf(h, ids) == [n \in 1..Len(ids) |-> h[ids[n]].name]

-----------------------------------------------------------------------------
(* parse_file *)

\* line.startswith("#")
IsHeaderLine(line) == line # <<>> /\ Head(line) = "#"

\* header_level = len(line) - len(line.lstrip("#"))
HeaderLevel(line) == Len(line) - Len(LStrip(line, {"#"}))

\* section_name = line[header_level + 1 :].strip()
SectionName(line) == Strip(SliceFrom(line, HeaderLevel(line) + 1), Whitespace)

\* A pop loop that keeps a section of the same depth open.
RECURSIVE PopDeeper(_, _, _)
PopDeeper(stack, h, header_level) ==
    IF stack # <<>> /\ h[stack[Len(stack)]].depth > header_level
    THEN PopDeeper(SubSeq(stack, 1, Len(stack) - 1), h, header_level)
    ELSE stack

\* while section_stack and section_stack[-1].depth >= header_level: pop()
RECURSIVE PopStack(_, _, _)
PopStack(stack, h, header_level) ==
    IF stack # <<>> /\ h[stack[Len(stack)]].depth >= header_level
    THEN PopStack(SubSeq(stack, 1, Len(stack) - 1), h, header_level)
    ELSE stack

\* One iteration of `for line in lines`.
ParseLine ==
    /\ pc = "parse"
    /\ i < Len(lines)
    /\ LET line == lines[i + 1] IN
       IF IsHeaderLine(line)
       THEN LET header_level == HeaderLevel(line)
                new_section  == NewSection(SectionName(line), header_level)
                id           == Len(nodes) + 1
                stack        == PopStack(section_stack, nodes, header_level)
                heap         == Append(nodes, new_section)
            IN  /\ IF stack # <<>>
                   THEN /\ nodes' = [heap EXCEPT ![stack[Len(stack)]].subsections =
                                        Append(@, id)]
                        /\ root_sections' = root_sections
                   ELSE /\ nodes' = heap
                        /\ root_sections' = Append(root_sections, id)
                /\ section_stack' = Append(stack, id)
       ELSE /\ IF section_stack # <<>>
               THEN nodes' = [nodes EXCEPT
                                ![section_stack[Len(section_stack)]].text =
                                    Append(@, line)]
               ELSE nodes' = nodes
            /\ UNCHANGED <<root_sections, section_stack>>
    /\ i' = i + 1
    /\ UNCHANGED <<lines, pc, passes, reports, out>>

\* return root_sections
ParseReturn ==
    /\ pc = "parse"
    /\ i = Len(lines)
    /\ pc' = "sort"
    /\ UNCHANGED <<lines, i, nodes, root_sections, section_stack, passes, reports, out>>

-----------------------------------------------------------------------------
(* Section.extract_last_name: HumanName(sect.name) of the nameparser       *)
(* package, on names written as "[title] first [middle ...] last": no      *)
(* commas, nicknames, suffixes, prefixes or conjunctions.                  *)

\* str.split(): the whitespace-separated pieces of s; word is the piece
\* being read.
RECURSIVE SplitWords(_, _)
SplitWords(s, word) ==
    IF s = <<>> THEN (IF word = <<>> THEN <<>> ELSE <<word>>)
    ELSE IF Head(s) \in Whitespace
    THEN (IF word = <<>> THEN <<>> ELSE <<word>>) \o SplitWords(Tail(s), <<>>)
    ELSE SplitWords(Tail(s), Append(word, Head(s)))

Split(s) == SplitWords(s, <<>>)

\* nameparser titles that occur in the documents checked here.
Titles == { <<"d","r">>, <<"m","r">> }

\* HumanName.is_title: lc(piece) in titles, lc = lower case, periods stripped.
is_title(piece) == Strip(Lower(piece), {"."}) \in Titles

\* HumanName.parse_full_name, the loop over the pieces of a comma-free name.
\* A title must have a next piece, unless the name is just a title.
RECURSIVE parse_pieces(_, _, _)
parse_pieces(pieces, n, acc) ==
    IF n > Len(pieces) THEN acc
    ELSE LET piece == pieces[n]
             nxt   == n < Len(pieces)
         IN  IF acc.first = <<>> /\ (nxt \/ Len(pieces) = 1) /\ is_title(piece)
             THEN parse_pieces(pieces, n + 1, [acc EXCEPT !.title = Append(@, piece)])
             ELSE IF acc.first = <<>>
             THEN parse_pieces(pieces, n + 1, [acc EXCEPT !.first = Append(@, piece)])
             ELSE IF ~nxt
             THEN parse_pieces(pieces, n + 1, [acc EXCEPT !.last = Append(@, piece)])
             ELSE parse_pieces(pieces, n + 1, [acc EXCEPT !.middle = Append(@, piece)])

\* " ".join(pieces)
RECURSIVE JoinSpace(_)
JoinSpace(ps) ==
    IF ps = <<>> THEN <<>>
    ELSE IF Len(ps) = 1 THEN ps[1]
    ELSE ps[1] \o <<" ">> \o JoinSpace(Tail(ps))

\* The title, first, middle and last attributes from the piece lists p.  A
\* title followed by one name only makes that name the last name ("Dr. Park").
NameAttributes(p) ==
    LET swap == p.title # <<>> /\ p.first # <<>> /\ p.middle = <<>> /\ p.last = <<>>
    IN  [title  |-> JoinSpace(p.title),
         first  |-> IF swap THEN <<>> ELSE JoinSpace(p.first),
         middle |-> JoinSpace(p.middle),
         last   |-> IF swap THEN JoinSpace(p.first) ELSE JoinSpace(p.last)]

\* HumanName(name)
HumanName(name) ==
    NameAttributes(parse_pieces(Split(name), 1,
        [title |-> <<>>, first |-> <<>>, middle |-> <<>>, last |-> <<>>]))

\* parsed_name.last.lower() if parsed_name.last else parsed_name.first.lower()
LastElseFirst(parsed_name) ==
    IF parsed_name.last # <<>> THEN Lower(parsed_name.last)
    ELSE Lower(parsed_name.first)

\* Section.extract_last_name
extract_last_name(sect) == LastElseFirst(HumanName(sect.name))

-----------------------------------------------------------------------------
(* self.subsections.sort(key=self.extract_last_name): list.sort computes   *)
(* each key once and is stable.                                            *)

\* The sections ids, each with its key.
Keyed(h, ids) ==
    [n \in 1..Len(ids) |-> [key |-> extract_last_name(h[ids[n]]), id |-> ids[n]]]

\* A sort that puts an item before the items of equal key.
RECURSIVE InsertBeforeEqual(_, _)
InsertBeforeEqual(sorted, item) ==
    IF sorted = <<>> THEN <<item>>
    ELSE IF ~StrLess(Head(sorted).key, item.key)
    THEN <<item>> \o sorted
    ELSE <<Head(sorted)>> \o InsertBeforeEqual(Tail(sorted), item)

\* Place item in the sorted list, after every item whose key is <= its key.
RECURSIVE InsertByKey(_, _)
InsertByKey(sorted, item) ==
    IF sorted = <<>> THEN <<item>>
    ELSE IF StrLess(item.key, Head(sorted).key)
    THEN <<item>> \o sorted
    ELSE <<Head(sorted)>> \o InsertByKey(Tail(sorted), item)

RECURSIVE StableSort(_)
StableSort(items) ==
    IF items = <<>> THEN <<>>
    ELSE InsertByKey(StableSort(SubSeq(items, 1, Len(items) - 1)), items[Len(items)])

IdsOf(items) == [n \in 1..Len(items) |-> items[n].id]

\* The order list.sort(key=extract_last_name) leaves the sections ids in.
SortByKey(h, ids) == IdsOf(StableSort(Keyed(h, ids)))

-----------------------------------------------------------------------------
(* calculate_reshuffle_percentage: difflib.ndiff on two lists of names.    *)
(* ndiff prefixes "- " / "+ " to exactly the elements outside the matching *)
(* blocks of SequenceMatcher (no junk, fewer than 200 elements).           *)

\* Length of the common run of a[x..ahi] and b[y..bhi] starting at x, y.
RECURSIVE MatchLen(_, _, _, _, _, _)
MatchLen(a, b, x, y, ahi, bhi) ==
    IF x <= ahi /\ y <= bhi /\ a[x] = b[y]
    THEN 1 + MatchLen(a, b, x + 1, y + 1, ahi, bhi)
    ELSE 0

\* Of the runs in L (start pair -> length): the longest, of those the one
\* starting earliest in a, of those the one starting earliest in b.
LongestEarliest(L) ==
    LET c == CHOOSE c \in DOMAIN L :
                 \A d \in DOMAIN L :
                     \/ L[d] < L[c]
                     \/ L[d] = L[c] /\ (c[1] < d[1] \/ (c[1] = d[1] /\ c[2] <= d[2]))
    IN  <<c[1], c[2], L[c]>>

\* SequenceMatcher.find_longest_match on a[alo..ahi], b[blo..bhi].
find_longest_match(a, b, alo, ahi, blo, bhi) ==
    LongestEarliest([c \in (alo..ahi) \X (blo..bhi) |->
                        MatchLen(a, b, c[1], c[2], ahi, bhi)])

\* SequenceMatcher.get_matching_blocks: the blocks <<x, y, k>>; m is the
\* longest match of the range, the ranges left and right of it follow.
RECURSIVE get_matching_blocks(_, _, _, _, _, _), BlocksAround(_, _, _, _, _, _, _)
get_matching_blocks(a, b, alo, ahi, blo, bhi) ==
    IF alo > ahi \/ blo > bhi THEN {}
    ELSE BlocksAround(a, b, alo, ahi, blo, bhi,
                      find_longest_match(a, b, alo, ahi, blo, bhi))

BlocksAround(a, b, alo, ahi, blo, bhi, m) ==
    IF m[3] = 0 THEN {}
    ELSE {m} \cup get_matching_blocks(a, b, alo, m[1] - 1, blo, m[2] - 1)
             \cup get_matching_blocks(a, b, m[1] + m[3], ahi, m[2] + m[3], bhi)

\* The elements of a and of b outside the matching blocks.
Unmatched(a, b, blocks) ==
    {a[n] : n \in {k \in 1..Len(a) : \A m \in blocks : ~(m[1] <= k /\ k < m[1] + m[3])}}
    \cup
    {b[n] : n \in {k \in 1..Len(b) : \A m \in blocks : ~(m[2] <= k /\ k < m[2] + m[3])}}

\* The names whose position changed: another reading of "moved".
MovedByPosition(section_name_before, section_name_after) ==
    {section_name_before[n] : n \in {k \in 1..Len(section_name_before) :
                                        section_name_before[k] # section_name_after[k]}}

\* moved = set(line[2:] for line in diff if line starts with "- " or "+ ")
Moved(section_name_before, section_name_after) ==
    Unmatched(section_name_before, section_name_after,
              get_matching_blocks(section_name_before, section_name_after,
                                  1, Len(section_name_before),
                                  1, Len(section_name_after)))

\* round(num / den * 100): Python rounds halves to the even integer.
RoundPercent(num, den) ==
    LET q == (100 * num) \div den
        r == (100 * num) % den
    IN  IF 2 * r < den THEN q
        ELSE IF 2 * r > den THEN q + 1
        ELSE IF q % 2 = 0 THEN q ELSE q + 1

\* The line shuffle_mess, as a record.  The "* name (was after ...)" lines
\* printed after it restate before and after and are left out.
ShuffleMess(this_section, this_parent, section_name_before, section_name_after, moved) ==
    [kind       |-> "alphabetized",
     section    |-> this_section,
     parent     |-> this_parent,
     before     |-> section_name_before,
     after      |-> section_name_after,
     moved      |-> moved,
     reshuffled |-> Cardinality(moved),
     total      |-> Len(section_name_before),
     percentage |-> RoundPercent(Cardinality(moved), Len(section_name_before))]

calculate_reshuffle_percentage(this_section, this_parent, section_name_before, section_name_after) ==
    ShuffleMess(this_section, this_parent, section_name_before, section_name_after,
                Moved(section_name_before, section_name_after))

-----------------------------------------------------------------------------
(* Section.sort_subsections *)

\* --sections: the default list.
sections_to_sort ==
    { <<"S","p","e","a","k","e","r","s">>,
      <<"O","r","g","a","n","i","z","e","r","s">>,
      <<"M","e","n","t","o","r","s">>,
      <<"G","e","t","t","i","n","g"," ","S","t","a","r","t","e","d">> }

\* A gate that forgets the parent's name.
AnyH3(depth, parent_section_name, sects_to_sort) == depth = 3

\* self.depth == 3 and parent_section_name in sects_to_sort
IsChosenH3(depth, parent_section_name, sects_to_sort) ==
    depth = 3 /\ parent_section_name \in sects_to_sort

\* if section_names_before != section_names_after: log.info(before, after),
\* calculate_reshuffle_percentage(...) else: log.info("No change ...")
LogChange(this_section, this_parent, section_names_before, section_names_after) ==
    IF section_names_before # section_names_after
    THEN calculate_reshuffle_percentage(this_section, this_parent,
                                        section_names_before, section_names_after)
    ELSE [kind |-> "no change", section |-> this_section, parent |-> this_parent,
          before |-> section_names_before, after |-> section_names_after]

\* The h4s of Section id put in the order sorted, and the change logged.
\* st = [h: the heap, reports: the log so far].
Resorted(st, id, parent_section_name, sorted) ==
    [h       |-> [st.h EXCEPT ![id].subsections = sorted],
     reports |-> Append(st.reports,
                        LogChange(st.h[id].name, parent_section_name,
                                  NamesOf(st.h, st.h[id].subsections),
                                  NamesOf(st.h, sorted)))]

\* sort_subsections on Section id.  grandparent_section_name only reaches
\* log messages and is left out.
RECURSIVE sort_subsections(_, _, _, _), SortEach(_, _, _, _)
sort_subsections(st, id, parent_section_name, sects_to_sort) ==
    SortEach(IF IsChosenH3(st.h[id].depth, parent_section_name, sects_to_sort)
                /\ st.h[id].subsections # <<>>
             THEN Resorted(st, id, parent_section_name,
                           SortByKey(st.h, st.h[id].subsections))
             ELSE st,
             id, 1, sects_to_sort)

\* for subsect in self.subsections: subsect.sort_subsections(self.name, ...)
SortEach(st, id, n, sects_to_sort) ==
    IF n > Len(st.h[id].subsections) THEN st
    ELSE SortEach(sort_subsections(st, st.h[id].subsections[n], st.h[id].name,
                                   sects_to_sort),
                  id, n + 1, sects_to_sort)

-----------------------------------------------------------------------------
(* __main__ *)

\* for subsection in section.subsections: if subsection.depth == 2: ...
RECURSIVE SortH2s(_, _, _)
SortH2s(st, subs, n) ==
    IF n > Len(subs) THEN st
    ELSE SortH2s(IF st.h[subs[n]].depth = 2
                 THEN sort_subsections(st, subs[n], st.h[subs[n]].name, sections_to_sort)
                 ELSE st,
                 subs, n + 1)

\* The inner `for section in sections: if section.depth == 1: ...`
RECURSIVE SortRoots(_, _, _)
SortRoots(st, roots, n) ==
    IF n > Len(roots) THEN st
    ELSE SortRoots(IF st.h[roots[n]].depth = 1
                   THEN SortH2s(st, st.h[roots[n]].subsections, 1)
                   ELSE st,
                   roots, n + 1)

\* One iteration of the outer `for section in sections`: a full pass.
SortPass ==
    /\ pc = "sort"
    /\ passes < Len(root_sections)
    /\ \E st \in {SortRoots([h |-> nodes, reports |-> <<>>], root_sections, 1)} :
           /\ nodes' = st.h
           /\ reports' = st.reports
    /\ passes' = passes + 1
    /\ UNCHANGED <<lines, pc, i, root_sections, section_stack, out>>

\* Section.to_markdownesque
RECURSIVE to_markdownesque(_, _)
to_markdownesque(h, id) ==
    LET self == h[id]
        header_line == Repeat("#", self.depth) \o <<" ">> \o self.name \o <<"\n">>
        text_content == Join(self.text)
        subsections_content ==
            Join([n \in 1..Len(self.subsections) |->
                      to_markdownesque(h, self.subsections[n])])
    IN  header_line \o text_content \o subsections_content

\* What the output loop writes for the forest h with the given roots.
RenderForest(h, roots) ==
    Join([n \in 1..Len(roots) |-> to_markdownesque(h, roots[n])])

\* for section in sections: out_file.write(section.to_markdownesque())
WriteOutput ==
    /\ pc = "sort"
    /\ passes = Len(root_sections)
    /\ out' = RenderForest(nodes, root_sections)
    /\ pc' = "done"
    /\ UNCHANGED <<lines, i, nodes, root_sections, section_stack, passes, reports>>

Next == ParseLine \/ ParseReturn \/ SortPass \/ WriteOutput

-----------------------------------------------------------------------------
(* Input documents *)

\* Sequences over S of length at most n.
SeqsUpTo(S, n) == UNION {[1..k -> S] : k \in 0..n}

Start(doc) ==
    /\ lines = doc
    /\ pc = "parse"
    /\ i = 0
    /\ nodes = <<>>
    /\ root_sections = <<>>
    /\ section_stack = <<>>
    /\ passes = 0
    /\ reports = <<>>
    /\ out = <<>>

H1Speakers == <<"#"," ","S","p","e","a","k","e","r","s","\n">>
H2Speakers == <<"#","#"," ","S","p","e","a","k","e","r","s","\n">>
H2Other    == <<"#","#"," ","O","t","h","e","r","\n">>
H3City     == <<"#","#","#"," ","C","i","t","y","\n">>
H4ZedYoung == <<"#","#","#","#"," ","Z","e","d"," ","Y","o","u","n","g","\n">>
H4AnnaPark == <<"#","#","#","#"," ","A","n","n","a"," ","P","a","r","k","\n">>
TextLine   == <<"t","e","x","t","\n">>

\* Documents of headers at depths 1 to 4 and text, in any order.
MaxLines == 5
LineSet == {H1Speakers, H2Speakers, H2Other, H3City, H4ZedYoung, H4AnnaPark, TextLine}
Init == \E doc \in SeqsUpTo(LineSet, MaxLines) : Start(doc)
Spec == Init /\ [][Next]_vars


\* Speaker lists: a document head, then h4 entries in any order.
H1Root     == <<"#"," ","R","o","o","t","\n">>
H4BobPark  == <<"#","#","#","#"," ","B","o","b"," ","P","a","r","k","\n">>
H4Madonna  == <<"#","#","#","#"," ","M","a","d","o","n","n","a","\n">>
H4Dr       == <<"#","#","#","#"," ","D","r",".","\n">>

MaxEntries == 3
Heads == { <<H1Root, H2Speakers, H3City>>,
           <<H2Other, H1Root, H2Speakers, H3City>> }
EntryLines == {H4ZedYoung, H4AnnaPark, H4BobPark, H4Madonna, H4Dr}
InitEntries ==
    \E head \in Heads : \E entries \in SeqsUpTo(EntryLines, MaxEntries) :
        Start(head \o entries)
SpecEntries == InitEntries /\ [][Next]_vars

\* Short documents that vary the spelling of a line; only the last line
\* of a file can lack its terminator.
H1A          == <<"#"," ","A","\n">>
H2B          == <<"#","#"," ","B","\n">>
HashTag      == <<"#","t","a","g","\n">>
H1TwoSpaces  == <<"#"," "," ","A","\n">>
H1Trailing   == <<"#"," ","A"," ","\n">>
Unterminated == <<"#"," ","A">>

MaxTextLines == 3
TextLineSet == {TextLine, H1A, H2B, HashTag, H1TwoSpaces, H1Trailing}
InitText ==
    \E doc \in SeqsUpTo(TextLineSet, MaxTextLines) :
        \E last \in {<<>>, <<Unterminated>>} : Start(doc \o last)
SpecText == InitText /\ [][Next]_vars

-----------------------------------------------------------------------------
(* Properties *)

Ids == 1..Len(nodes)

\* The Section that holds id in its subsections, 0 for a root.
ParentOf(id) ==
    IF \E p \in Ids : \E n \in 1..Len(nodes[p].subsections) : nodes[p].subsections[n] = id
    THEN CHOOSE p \in Ids : \E n \in 1..Len(nodes[p].subsections) :
                                nodes[p].subsections[n] = id
    ELSE 0

\* A sort candidate: depth 3 and the parent's name is in the sortable set.
IsCandidate(id) ==
    /\ nodes[id].depth = 3
    /\ ParentOf(id) # 0
    /\ nodes[ParentOf(id)].name \in sections_to_sort

Key(id) == extract_last_name(nodes[id])

\* Non-decreasing sort-key order.
KeySorted(ids) == \A x \in 1..(Len(ids) - 1) : ~StrLess(Key(ids[x + 1]), Key(ids[x]))

\* Document order at build time: Sections are numbered as their headers are read.
DocOrder(ids) == \A x \in 1..(Len(ids) - 1) : ids[x] < ids[x + 1]

PosIn(ids, id) == CHOOSE x \in 1..Len(ids) : ids[x] = id

IsPermutation(s, t) ==
    /\ Len(s) = Len(t)
    /\ \A id \in {s[x] : x \in 1..Len(s)} :
           Cardinality({x \in 1..Len(s) : s[x] = id}) =
           Cardinality({x \in 1..Len(t) : t[x] = id})

\* C1: rendering the freshly built forest, before any sort pass, reproduces
\* the input line sequence exactly.
RoundTrip ==
    (pc = "sort" /\ passes = 0) => RenderForest(nodes, root_sections) = Join(lines)

\* C2: after the sort phase every depth-3 Section with a parent named in the
\* sortable set, wherever it sits, has its children in non-decreasing key order.
SortCompleteness ==
    pc = "done" =>
        \A id \in Ids :
            (IsCandidate(id) /\ nodes[id].subsections # <<>>)
                => KeySorted(nodes[id].subsections)

\* C3: the root list and the children of every Section that is not a sort
\* candidate are in document order, during and after the sort phase.
ScopeContainment ==
    /\ DocOrder(root_sections)
    /\ \A id \in Ids : ~IsCandidate(id) => DocOrder(nodes[id].subsections)

\* C3 witness: the sort phase has walked a depth-3 Section whose parent is
\* not sortable and whose children are out of key order, and left it alone.
ScopeContainmentWitness ==
    /\ pc = "done"
    /\ \E id \in Ids :
           /\ nodes[id].depth = 3
           /\ ParentOf(id) # 0
           /\ nodes[ParentOf(id)].depth = 2
           /\ nodes[ParentOf(id)].name \notin sections_to_sort
           /\ ParentOf(ParentOf(id)) # 0
           /\ nodes[ParentOf(ParentOf(id))].depth = 1
           /\ Len(nodes[id].subsections) >= 2
           /\ ~KeySorted(nodes[id].subsections)

\* The lines of the string s, each with its terminator.
RECURSIVE SplitLines(_, _)
SplitLines(s, line) ==
    IF s = <<>> THEN (IF line = <<>> THEN <<>> ELSE <<line>>)
    ELSE IF Head(s) = "\n" THEN <<Append(line, "\n")>> \o SplitLines(Tail(s), <<>>)
    ELSE SplitLines(Tail(s), Append(line, Head(s)))

\* s occurs in t, in order.
RECURSIVE IsSubsequence(_, _)
IsSubsequence(s, t) ==
    IF s = <<>> THEN TRUE
    ELSE IF t = <<>> THEN FALSE
    ELSE IF Head(s) = Head(t) THEN IsSubsequence(Tail(s), Tail(t))
    ELSE IsSubsequence(s, Tail(t))

\* The text lines before the first header line.
RECURSIVE Preamble(_)
Preamble(doc) ==
    IF doc = <<>> \/ IsHeaderLine(Head(doc)) THEN <<>>
    ELSE <<Head(doc)>> \o Preamble(Tail(doc))

\* C4: the text lines before the first header appear in the rendered
\* output, in their original order.
PreamblePreserved ==
    pc = "done" => IsSubsequence(Preamble(lines), SplitLines(out, <<>>))

\* A run of markers followed by a character that is not whitespace.
IsMalformedHeader(line) ==
    /\ IsHeaderLine(line)
    /\ HeaderLevel(line) < Len(line)
    /\ line[HeaderLevel(line) + 1] \notin Whitespace

\* C5: a line of markers not followed by whitespace is plain text: reading
\* it creates no Section, pops nothing off the ancestor stack, and appends
\* the line verbatim to the text of the innermost open section.
MalformedHeaderIsText ==
    [][(pc = "parse" /\ i < Len(lines) /\ i' = i + 1 /\ IsMalformedHeader(lines[i + 1]))
         => /\ Len(nodes') = Len(nodes)
            /\ section_stack' = section_stack
            /\ root_sections' = root_sections
            /\ nodes' = IF section_stack = <<>> THEN nodes
                         ELSE [nodes EXCEPT ![section_stack[Len(section_stack)]].text =
                                                Append(@, lines[i + 1])]]_vars

\* The key the fallback chain asks for: last name, else first token, else
\* the full trimmed name, lower-cased.
FallbackKey(name) ==
    LET parsed_name == HumanName(name)
    IN  IF parsed_name.last # <<>> THEN Lower(parsed_name.last)
        ELSE IF parsed_name.first # <<>> THEN Lower(parsed_name.first)
        ELSE Lower(Strip(name, Whitespace))

\* C6: the sort key of every child of a sorted candidate is the lower-cased
\* last name, else the lower-cased first token, else the lower-cased full name.
KeyFallbackChain ==
    pc = "done" =>
        \A id \in Ids :
            IsCandidate(id) =>
                \A x \in 1..Len(nodes[id].subsections) :
                    Key(nodes[id].subsections[x]) =
                        FallbackKey(nodes[nodes[id].subsections[x]].name)

\* C7: a sort pass permutes the children of each Section, and children with
\* equal sort keys keep their relative order.
Stability ==
    [][(pc = "sort" /\ passes' = passes + 1) =>
          \A id \in Ids :
              LET before == nodes[id].subsections
                  after  == nodes'[id].subsections
              IN  /\ IsPermutation(before, after)
                  /\ \A x, y \in 1..Len(before) :
                         (x < y /\ Key(before[x]) = Key(before[y]))
                             => PosIn(after, before[x]) < PosIn(after, before[y])]_vars

\* C7 witness: a sorted candidate was reordered and holds two children of
\* different names and the same key.
StabilityWitness ==
    /\ pc = "done"
    /\ \E id \in Ids :
           /\ IsCandidate(id)
           /\ ~DocOrder(nodes[id].subsections)
           /\ \E x, y \in 1..Len(nodes[id].subsections) :
                  /\ x < y
                  /\ Key(nodes[id].subsections[x]) = Key(nodes[id].subsections[y])
                  /\ nodes[nodes[id].subsections[x]].name #
                         nodes[nodes[id].subsections[y]].name

\* C8: every pass after the first leaves every Section's child order as it
\* is and finds before = after for every candidate.
Idempotence ==
    [][(pc = "sort" /\ passes >= 1 /\ passes' = passes + 1) =>
          /\ nodes' = nodes
          /\ \A n \in 1..Len(reports') : reports'[n].kind = "no change"]_vars

\* C8 witness: a second pass has run over a forest the first pass reordered.
IdempotenceWitness ==
    /\ passes >= 2
    /\ reports # <<>>
    /\ \E id \in Ids : IsCandidate(id) /\ ~DocOrder(nodes[id].subsections)

ZedYoung == <<"Z","e","d"," ","Y","o","u","n","g">>
AnnaPark == <<"A","n","n","a"," ","P","a","r","k">>

\* The report of the example: before [Zed Young, Anna Park], after
\* [Anna Park, Zed Young].
IsExampleReport(r) ==
    /\ r.kind = "alphabetized"
    /\ r.before = <<ZedYoung, AnnaPark>>
    /\ r.after = <<AnnaPark, ZedYoung>>

StackInvariant ==
    /\ \A x \in 1..(Len(section_stack) - 1) :
           nodes[section_stack[x]].depth < nodes[section_stack[x + 1]].depth
    /\ \A p \in Ids : \A n \in 1..Len(nodes[p].subsections) :
           nodes[p].depth < nodes[nodes[p].subsections[n]].depth

\* A new header becomes the last child of the innermost open Section of
\* smaller depth, or a root when there is none.
AttachToNearest ==
    Len(nodes') = Len(nodes) + 1 =>
        LET new == Len(nodes')
            open == {x \in 1..Len(section_stack) :
                        nodes[section_stack[x]].depth < nodes'[new].depth}
        IN  IF open = {}
            THEN root_sections' = Append(root_sections, new)
            ELSE LET top == CHOOSE x \in open : \A y \in open : y <= x
                 IN  /\ root_sections' = root_sections
                     /\ nodes'[section_stack[top]].subsections =
                            Append(nodes[section_stack[top]].subsections, new)

\* C10: the ancestor stack is strictly increasing in depth after every
\* prefix, each new header is attached to the nearest open Section of
\* smaller depth, and a child is deeper than its parent by one or more.
AncestorStack == []StackInvariant /\ [][AttachToNearest]_vars

\* C10 witness: a header two levels deeper than its parent, attached after
\* the stack was popped.
AncestorStackWitness ==
    \E p \in Ids : \E n \in 1..Len(nodes[p].subsections) :
        /\ nodes[nodes[p].subsections[n]].depth >= nodes[p].depth + 2
        /\ n >= 2
        /\ Len(section_stack) >= 2

=============================================================================
